---- MODULE Spec2Model ----
(***************************************************************************)
(* Model of scripts/deploy_multichain.py: the MultiChainDeployer run       *)
(* (check_environment, deploy_solana, deploy_skale, sync_cross_chain,      *)
(* generate_report, driven by run_full_deployment).                        *)
(*                                                                         *)
(* Strings that the code parses are sequences of tokens: a marker          *)
(* ("Program ID:" or "Contract Address:") is one token, " " is a           *)
(* whitespace character, "a" is any other character and "\n" a newline.    *)
(* Python's None is the empty sequence and a value v is <<v>>.             *)
(*                                                                         *)
(* Line 263 of the source is two print statements run together             *)
(* (print(".2f" print(f"Relayer Type: ...")); generate_report is modelled   *)
(* by the statements around it, which decide what the report lists and     *)
(* the cross-chain status it prints.                                       *)
(***************************************************************************)
EXTENDS Integers, Sequences, FiniteSets, TLC

VARIABLES PRIVATE_KEY, probe, pc, now, deployments, solana_result,
          skale_result, calls, ext, out, sync_log, sync_ret, report, result

vars == <<PRIVATE_KEY, probe, pc, now, deployments, solana_result,
          skale_result, calls, ext, out, sync_log, sync_ret, report, result>>

\* Bounds of the model.
MaxOut == 4
MaxTime == 1
MaxSyncs == 2
MaxIdLen == 2
MaxCalls == 2

None == <<>>
Some(v) == <<v>>

\* ---------------------------------------------------------------------
\* Configuration (module level and __init__)
\* ---------------------------------------------------------------------
DefaultKey == "your_private_key_here"

\* Values os.getenv('PRIVATE_KEY', 'your_private_key_here') can yield.
KeyValues == {DefaultKey, "", "0xKEY"}

\* The executables check_environment probes with subprocess.run.
Tools == {"node", "python3", "anchor", "npx"}

ProgramIdMarker == "Program ID:"
ContractAddressMarker == "Contract Address:"

\* self.chains: the native token and relayer type of each configured chain.
chains == [solana |-> [native_token |-> "SOL", relayer_type |-> "octane"],
           skale |-> [native_token |-> "sFUEL", relayer_type |-> "biconomy"]]

\* ---------------------------------------------------------------------
\* String helpers (str.split, str.strip, "in")
\* ---------------------------------------------------------------------
Contains(s, tok) == \E i \in 1..Len(s) : s[i] = tok

FirstIndex(s, tok) == CHOOSE i \in 1..Len(s) :
                        /\ s[i] = tok
                        /\ \A j \in 1..(i - 1) : s[j] # tok

RECURSIVE Split(_, _)
Split(s, sep) ==
  IF ~Contains(s, sep)
    THEN <<s>>
    ELSE LET i == FirstIndex(s, sep)
         IN <<SubSeq(s, 1, i - 1)>> \o Split(SubSeq(s, i + 1, Len(s)), sep)

RECURSIVE LStrip(_)
LStrip(s) == IF s # <<>> /\ Head(s) = " " THEN LStrip(Tail(s)) ELSE s

RECURSIVE RStrip(_)
RStrip(s) == IF s # <<>> /\ s[Len(s)] = " "
               THEN RStrip(SubSeq(s, 1, Len(s) - 1))
               ELSE s

Strip(s) == RStrip(LStrip(s))

\* The for loop over the lines: the first line holding the marker gives
\* line.split(marker)[1].strip(); None when no line holds it.
RECURSIVE ExtractIdNoBreak(_, _)
ExtractIdNoBreak(lines, marker) ==
  IF lines = <<>>
    THEN None
    ELSE LET later == ExtractIdNoBreak(Tail(lines), marker)
         IN IF later # None
              THEN later
              ELSE IF Contains(Head(lines), marker)
                     THEN Some(Strip(Split(Head(lines), marker)[2]))
                     ELSE None
RECURSIVE ExtractId(_, _)
ExtractId(lines, marker) ==
  IF lines = <<>>
    THEN None
    ELSE IF Contains(Head(lines), marker)
           THEN Some(Strip(Split(Head(lines), marker)[2]))
           ELSE ExtractId(Tail(lines), marker)

\* result.stdout.split('\n') followed by the loop.
ParseStdout(stdout, marker) == ExtractId(Split(stdout, "\n"), marker)

\* "if program_id:" - neither None nor the empty string.
TruthyNotNone(opt) == opt # None
Truthy(opt) == opt # None /\ opt[1] # <<>>

RECURSIVE SeqsUpTo(_, _)
SeqsUpTo(S, n) ==
  IF n = 0
    THEN {<<>>}
    ELSE LET shorter == SeqsUpTo(S, n - 1)
         IN shorter \cup {Append(s, x) : s \in {t \in shorter : Len(t) = n - 1},
                                         x \in S}

\* The texts the deploy script of a chain can write to its stdout.
Stdouts(marker) == SeqsUpTo({marker, " ", "a", "\n"}, MaxOut)

\* ---------------------------------------------------------------------
\* check_environment
\* ---------------------------------------------------------------------
\* The order in which check_environment probes the executables.
ProbeOrder == <<"node", "python3", "anchor", "npx">>

\* A missing node or python3 makes check_environment return False; a
\* missing anchor or npx (hardhat) only prints a message.
ToolMissingHaltsAny(tool) == TRUE
ToolMissingHalts(tool) == tool \in {"node", "python3"}

\* "if PRIVATE_KEY == 'your_private_key_here'".
CredentialAlwaysPresent(key) == FALSE
CredentialMissing(key) == key = DefaultKey

\* The probes from the i-th on: the executables tried, the messages
\* printed, and whether no probe returned False.
RECURSIVE RunProbes(_, _)
RunProbes(p, i) ==
  IF i > Len(ProbeOrder)
    THEN [ext |-> <<>>, out |-> <<>>, ok |-> TRUE]
    ELSE LET t == ProbeOrder[i]
             rest == RunProbes(p, i + 1)
         IN IF p[t]
              THEN [ext |-> <<t>> \o rest.ext,
                    out |-> <<<<"found", t>>>> \o rest.out,
                    ok |-> rest.ok]
              ELSE IF ToolMissingHalts(t)
                     THEN [ext |-> <<t>>,
                           out |-> <<<<"not found", t>>>>,
                           ok |-> FALSE]
                     ELSE [ext |-> <<t>> \o rest.ext,
                           out |-> <<<<"not found", t>>>> \o rest.out,
                           ok |-> rest.ok]

\* The whole of check_environment: its return value, the executables it
\* tried and what it printed.
CheckEnvironment(p, key) ==
  LET r == RunProbes(p, 1)
  IN IF ~r.ok
       THEN r
       ELSE IF CredentialMissing(key)
              THEN [ext |-> r.ext,
                    out |-> Append(r.out, <<"private key not configured">>),
                    ok |-> FALSE]
              ELSE [ext |-> r.ext,
                    out |-> Append(r.out, <<"private key configured">>),
                    ok |-> TRUE]

\* run_full_deployment, lines 285-288.
check_environment ==
  /\ pc = "start"
  /\ LET r == CheckEnvironment(probe, PRIVATE_KEY)
     IN /\ calls' = Append(calls, "check_environment")
        /\ ext' = ext \o r.ext
        /\ out' = IF r.ok
                    THEN out \o r.out
                    ELSE out \o r.out \o <<<<"environment check failed">>>>
        /\ pc' = IF r.ok THEN "deploy_solana" ELSE "done"
  /\ UNCHANGED <<PRIVATE_KEY, probe, now, deployments, solana_result,
                 skale_result, sync_log, sync_ret, report, result>>

\* ---------------------------------------------------------------------
\* deploy_solana, deploy_skale
\* ---------------------------------------------------------------------
NoStdout == <<>>

\* What the external steps of deploy_solana can do: anchor build (with
\* check=True) raises FileNotFoundError when anchor is absent and
\* CalledProcessError when the build fails; the node script raises, exits
\* nonzero, or exits 0 having written some stdout.
SolanaOutcomesOf(p, stdouts) ==
  IF ~p["anchor"]
    THEN {[exc |-> "FileNotFoundError", steps |-> <<"anchor build">>,
           returncode |-> 1, stdout |-> NoStdout]}
    ELSE {[exc |-> "CalledProcessError", steps |-> <<"anchor build">>,
           returncode |-> 1, stdout |-> NoStdout]}
         \cup {[exc |-> "OSError",
                steps |-> <<"anchor build", "node solana_zero_cost_deploy.js">>,
                returncode |-> 1, stdout |-> NoStdout]}
         \cup {[exc |-> "none",
                steps |-> <<"anchor build", "node solana_zero_cost_deploy.js">>,
                returncode |-> 1, stdout |-> NoStdout]}
         \cup {[exc |-> "none",
                steps |-> <<"anchor build", "node solana_zero_cost_deploy.js">>,
                returncode |-> 0, stdout |-> s] : s \in stdouts}

SolanaOutcomes(p) == SolanaOutcomesOf(p, Stdouts(ProgramIdMarker))

\* The external step of deploy_skale: the node script alone.
SkaleOutcomesOf(stdouts) ==
  {[exc |-> "OSError", steps |-> <<"node skale_mainnet_zero_cost_deploy.js">>,
    returncode |-> 1, stdout |-> NoStdout]}
  \cup {[exc |-> "none", steps |-> <<"node skale_mainnet_zero_cost_deploy.js">>,
         returncode |-> 1, stdout |-> NoStdout]}
  \cup {[exc |-> "none", steps |-> <<"node skale_mainnet_zero_cost_deploy.js">>,
         returncode |-> 0, stdout |-> s] : s \in stdouts}

SkaleOutcomes == SkaleOutcomesOf(Stdouts(ContractAddressMarker))

\* "except subprocess.CalledProcessError" and "except Exception": every
\* exception of the external steps is caught inside the deployer.
CaughtCalledProcessErrorOnly(exc) == exc = "CalledProcessError"
Caught(exc) == exc \in {"CalledProcessError", "FileNotFoundError", "OSError"}

\* Which path through the try block an outcome of the external steps takes.
DeployPath(o, marker) ==
  IF o.exc # "none"
    THEN IF ~Caught(o.exc)
           THEN "raised"
           ELSE IF o.exc = "CalledProcessError"
                  THEN "deployment error"
                  ELSE "unexpected error"
    ELSE IF o.returncode = 0
           THEN IF Truthy(ParseStdout(o.stdout, marker))
                  THEN "successful"
                  ELSE "could not extract"
           ELSE "deployment failed"

SolanaDeployment(program_id, t) ==
  [chain |-> "solana", contract_address |-> program_id,
   program_id |-> program_id, tx_hash |-> "relayer_tx_hash",
   gas_used |-> "0", relayer_fee |-> "0.001", timestamp |-> t]

SkaleDeploymentAsSolana(contract_address, t) ==
  [chain |-> "solana", contract_address |-> contract_address,
   program_id |-> contract_address, tx_hash |-> "relayer_tx_hash",
   gas_used |-> "0", relayer_fee |-> "0.01", timestamp |-> t]
SkaleDeployment(contract_address, t) ==
  [chain |-> "skale", contract_address |-> contract_address,
   program_id |-> contract_address, tx_hash |-> "relayer_tx_hash",
   gas_used |-> "0", relayer_fee |-> "0.01", timestamp |-> t]

\* self.deployments.append(deployment), lines 151 and 197.
LedgerPrepend(ledger, deployment) == <<deployment>> \o ledger
LedgerReplace(ledger, deployment) == <<deployment>>
LedgerNoAppend(ledger, deployment) == ledger
LedgerAppend(ledger, deployment) == Append(ledger, deployment)

\* The whole of deploy_solana, its external steps doing o.
SolanaBody(o) ==
  LET path == DeployPath(o, ProgramIdMarker)
  IN /\ calls' = Append(calls, "deploy_solana")
     /\ ext' = ext \o o.steps
     /\ out' = Append(out, <<path, "solana">>)
     /\ IF path = "successful"
          THEN \E t \in now..MaxTime :
                 LET deployment ==
                       SolanaDeployment(ParseStdout(o.stdout, ProgramIdMarker)[1], t)
                 IN /\ now' = t
                    /\ deployments' = LedgerAppend(deployments, deployment)
                    /\ solana_result' = Some(deployment)
          ELSE /\ now' = now
               /\ deployments' = deployments
               /\ solana_result' = None

\* The whole of deploy_skale, its external step doing o.
SkaleBody(o) ==
  LET path == DeployPath(o, ContractAddressMarker)
  IN /\ calls' = Append(calls, "deploy_skale")
     /\ ext' = ext \o o.steps
     /\ out' = Append(out, <<path, "skale">>)
     /\ IF path = "successful"
          THEN \E t \in now..MaxTime :
                 LET deployment ==
                       SkaleDeployment(ParseStdout(o.stdout, ContractAddressMarker)[1], t)
                 IN /\ now' = t
                    /\ deployments' = LedgerAppend(deployments, deployment)
                    /\ skale_result' = Some(deployment)
          ELSE /\ now' = now
               /\ deployments' = deployments
               /\ skale_result' = None

\* run_full_deployment line 291 with the whole of deploy_solana.
deploy_solana ==
  /\ pc = "deploy_solana"
  /\ \E o \in SolanaOutcomes(probe) :
       /\ SolanaBody(o)
       /\ pc' = IF DeployPath(o, ProgramIdMarker) = "raised"
                  THEN "raised"
                  ELSE "deploy_skale"
  /\ UNCHANGED <<PRIVATE_KEY, probe, skale_result, sync_log, sync_ret, report, result>>

\* run_full_deployment line 294 with the whole of deploy_skale.
deploy_skale ==
  /\ pc = "deploy_skale"
  /\ \E o \in SkaleOutcomes :
       /\ SkaleBody(o)
       /\ pc' = IF DeployPath(o, ContractAddressMarker) = "raised"
                  THEN "raised"
                  ELSE "branch"
  /\ UNCHANGED <<PRIVATE_KEY, probe, solana_result, sync_log, sync_ret, report, result>>

\* ---------------------------------------------------------------------
\* run_full_deployment: the branch on the two return values
\* ---------------------------------------------------------------------
\* A DeploymentResult is always true in a condition; None is false.
IsResult(r) == r # None

\* "if solana_result and skale_result".
EitherSuccessful(s, k) == IsResult(s) \/ IsResult(k)
BothSuccessful(s, k) == IsResult(s) /\ IsResult(k)

\* Where run_full_deployment goes from line 297: to sync_cross_chain, to
\* generate_report, or out of the function (the return of line 305).
BranchTargetNoReturn(s, k) ==
  IF BothSuccessful(s, k) THEN "sync" ELSE "report"
BranchTarget(s, k) ==
  IF BothSuccessful(s, k)
    THEN "sync"
    ELSE IF IsResult(s) \/ IsResult(k) THEN "report" ELSE "done"

BranchMessage(s, k) ==
  IF BothSuccessful(s, k)
    THEN <<>>
    ELSE IF IsResult(s)
           THEN <<<<"only solana successful">>>>
           ELSE IF IsResult(k)
                  THEN <<<<"only skale successful">>>>
                  ELSE <<<<"both deployments failed">>>>

\* run_full_deployment, lines 296-305.
branch ==
  /\ pc = "branch"
  /\ pc' = BranchTarget(solana_result, skale_result)
  /\ out' = out \o BranchMessage(solana_result, skale_result)
  /\ UNCHANGED <<PRIVATE_KEY, probe, now, deployments, solana_result,
                 skale_result, calls, ext, sync_log, sync_ret, report, result>>

\* ---------------------------------------------------------------------
\* sync_cross_chain
\* ---------------------------------------------------------------------
\* The sync_data dictionary of lines 224-235.
SyncDataTimed(solana_deployment, skale_deployment, t) ==
  [source_chain |-> "solana", target_chain |-> "skale",
   source_address |-> solana_deployment.contract_address,
   target_address |-> skale_deployment.contract_address,
   sacred_state |-> [matrix_level |-> 1, earnings_pool |-> t,
                     allowlist |-> <<solana_deployment.contract_address,
                                     skale_deployment.contract_address>>],
   timestamp |-> t]
SyncData(solana_deployment, skale_deployment, t) ==
  [source_chain |-> "solana", target_chain |-> "skale",
   source_address |-> solana_deployment.contract_address,
   target_address |-> skale_deployment.contract_address,
   sacred_state |-> [matrix_level |-> 1, earnings_pool |-> 0,
                     allowlist |-> <<solana_deployment.contract_address,
                                     skale_deployment.contract_address>>],
   timestamp |-> t]

\* The ways the try block can end: every statement runs (return True), a
\* statement before sync_data is built raises, or one after it raises
\* (both: "except Exception", return False).
SyncEndings == {"complete", "raised before sync_data", "raised after sync_data"}

\* Reading .contract_address of None raises AttributeError at line 220 or
\* 221, inside the try block and before sync_data is built.
EndingsFor(solana_deployment, skale_deployment) ==
  IF solana_deployment = None \/ skale_deployment = None
    THEN {"raised before sync_data"}
    ELSE SyncEndings

\* What sync_cross_chain does to self.deployments: nothing.
LedgerAfterSyncRollback(ledger, ending) ==
  IF ending = "complete" THEN ledger ELSE <<>>
LedgerAfterSync(ledger, ending) == ledger

\* The body of sync_cross_chain, called with two arguments, each a
\* DeploymentResult or None.
SyncBody(solana_deployment, skale_deployment) ==
  \E ending \in EndingsFor(solana_deployment, skale_deployment) :
    /\ calls' = Append(calls, "sync_cross_chain")
    /\ deployments' = LedgerAfterSync(deployments, ending)
    /\ IF ending = "raised before sync_data"
         THEN /\ now' = now
              /\ sync_log' = sync_log
         ELSE \E t \in now..MaxTime :
                /\ now' = t
                /\ sync_log' = Append(sync_log,
                                      SyncData(solana_deployment[1],
                                               skale_deployment[1], t))
    /\ sync_ret' = Some(ending = "complete")
    /\ out' = Append(out, IF ending = "complete"
                            THEN <<"synchronization complete">>
                            ELSE <<"sync failed">>)

\* run_full_deployment line 298: the return value is not used.
sync_cross_chain ==
  /\ pc = "sync"
  /\ SyncBody(solana_result, skale_result)
  /\ pc' = "report"
  /\ UNCHANGED <<PRIVATE_KEY, probe, solana_result, skale_result, ext, report, result>>

\* ---------------------------------------------------------------------
\* generate_report
\* ---------------------------------------------------------------------
\* float(d.relayer_fee), in thousandths.
FloatMilli(fee) == IF fee = "0.001" THEN 1 ELSE IF fee = "0.01" THEN 10 ELSE 0

RECURSIVE SumFees(_)
SumFees(ledger) ==
  IF ledger = <<>> THEN 0
  ELSE FloatMilli(Head(ledger).relayer_fee) + SumFees(Tail(ledger))

\* Lines 276-279.
CrossChainStatusAtLeastOne(total_deployments) ==
  IF total_deployments >= 1 THEN "Synchronized" ELSE "Single chain deployment only"
CrossChainStatus(total_deployments) ==
  IF total_deployments >= 2 THEN "Synchronized" ELSE "Single chain deployment only"

\* One entry of "Deployment Details" (lines 269-274).
Detail(d) ==
  [chain |-> d.chain, address |-> d.contract_address,
   gas_used |-> d.gas_used, relayer_fee |-> d.relayer_fee,
   native_token |-> chains[d.chain].native_token, timestamp |-> d.timestamp]

\* Everything generate_report prints, from self.deployments alone.
Report(ledger) ==
  [total_deployments |-> Len(ledger),
   total_savings |-> SumFees(ledger),
   chains_deployed |-> {ledger[i].chain : i \in 1..Len(ledger)},
   relayer_types |-> {chains[ledger[i].chain].relayer_type : i \in 1..Len(ledger)},
   details |-> [i \in 1..Len(ledger) |-> Detail(ledger[i])],
   status |-> CrossChainStatus(Len(ledger))]

\* run_full_deployment, lines 307-316.
generate_report ==
  /\ pc = "report"
  /\ calls' = Append(calls, "generate_report")
  /\ report' = Some(Report(deployments))
  /\ out' = out \o <<<<"report">>, <<"deployment complete">>>>
  /\ pc' = "done"
  /\ UNCHANGED <<PRIVATE_KEY, probe, now, deployments, solana_result,
                 skale_result, ext, sync_log, sync_ret, result>>

\* ---------------------------------------------------------------------
\* The variable result holds, for each chain, what the external steps of
\* its deployer are going to do, when that is fixed before the call (the
\* specifications that call the deployers directly); in a run of main()
\* it is chosen at the call and result stays empty.
NoResult == [solana |-> None, skale |-> None]

\* ---------------------------------------------------------------------
\* One run of main(): MultiChainDeployer() then run_full_deployment()
\* ---------------------------------------------------------------------
Init ==
  /\ PRIVATE_KEY \in KeyValues
  /\ probe \in [Tools -> BOOLEAN]
  /\ pc = "start"
  /\ now = 0
  /\ deployments = <<>>
  /\ solana_result = None
  /\ skale_result = None
  /\ calls = <<>>
  /\ ext = <<>>
  /\ out = <<>>
  /\ sync_log = <<>>
  /\ sync_ret = None
  /\ report = None
  /\ result = NoResult

Next ==
  \/ check_environment
  \/ deploy_solana
  \/ deploy_skale
  \/ branch
  \/ sync_cross_chain
  \/ generate_report

Spec == Init /\ [][Next]_vars

\* Every step of the run is a call that returns (the external steps are
\* taken to terminate), so the run goes on until it is done.
FairSpec == Spec /\ WF_vars(Next)

\* ---------------------------------------------------------------------
\* sync_cross_chain called directly, any number of times, on one deployer
\* ---------------------------------------------------------------------
\* The identifiers a deployer can extract from a stdout.
Ids ==
  {ParseStdout(s, ProgramIdMarker)[1] :
     s \in {x \in SeqsUpTo({ProgramIdMarker, " ", "a", "\n"}, MaxIdLen + 1) :
              Truthy(ParseStdout(x, ProgramIdMarker))}}

\* The DeploymentResults the two deployers can build.
DeployerResults ==
  {SolanaDeployment(id, t) : id \in Ids, t \in 0..MaxTime}
  \cup {SkaleDeployment(id, t) : id \in Ids, t \in 0..MaxTime}

SyncArgs == {None} \cup {Some(d) : d \in DeployerResults}

SyncInit ==
  /\ PRIVATE_KEY = "0xKEY"
  /\ probe = [t \in Tools |-> TRUE]
  /\ pc = "api"
  /\ now \in 0..MaxTime
  /\ solana_result \in SyncArgs
  /\ skale_result \in SyncArgs
  /\ deployments = solana_result \o skale_result
  /\ \A i \in 1..Len(deployments) : deployments[i].timestamp <= now
  /\ calls = <<>>
  /\ ext = <<>>
  /\ out = <<>>
  /\ sync_log = <<>>
  /\ sync_ret = None
  /\ report = None
  /\ result = NoResult

\* One more call of sync_cross_chain with the same two arguments.
reconcile ==
  /\ pc = "api"
  /\ Len(calls) < MaxSyncs
  /\ SyncBody(solana_result, skale_result)
  /\ UNCHANGED <<PRIVATE_KEY, probe, pc, solana_result, skale_result, ext, report, result>>

SyncNext == reconcile

SyncSpec == SyncInit /\ [][SyncNext]_vars

\* ---------------------------------------------------------------------
\* The deployers called directly on a fresh MultiChainDeployer, in either
\* order, what their external steps do being fixed beforehand; then the
\* rest of run_full_deployment
\* ---------------------------------------------------------------------
\* Shorter texts, for the cases where both scripts' outputs are fixed.
ShortStdouts(marker) == SeqsUpTo({marker, " ", "a", "\n"}, MaxIdLen)

\* One deployer's external steps fixed, with any stdout, or both
\* deployers', with a short one.
FixedResults(p) ==
  {[solana |-> Some(o), skale |-> None] : o \in SolanaOutcomes(p)}
  \cup {[solana |-> None, skale |-> Some(o)] : o \in SkaleOutcomes}
  \cup {[solana |-> Some(a), skale |-> Some(b)] :
          a \in SolanaOutcomesOf(p, ShortStdouts(ProgramIdMarker)),
          b \in SkaleOutcomesOf(ShortStdouts(ContractAddressMarker))}

DeployInit ==
  /\ PRIVATE_KEY = "0xKEY"
  /\ probe \in {p \in [Tools -> BOOLEAN] : p["node"] /\ p["python3"] /\ p["npx"]}
  /\ pc = "api"
  /\ now = 0
  /\ deployments = <<>>
  /\ solana_result = None
  /\ skale_result = None
  /\ calls = <<>>
  /\ ext = <<>>
  /\ out = <<>>
  /\ sync_log = <<>>
  /\ sync_ret = None
  /\ report = None
  /\ result \in FixedResults(probe)

\* deploy_solana(), before or after deploy_skale().
call_deploy_solana ==
  /\ pc = "api"
  /\ result.solana # None
  /\ \A i \in 1..Len(calls) : calls[i] # "deploy_solana"
  /\ SolanaBody(result.solana[1])
  /\ pc' = IF DeployPath(result.solana[1], ProgramIdMarker) = "raised"
             THEN "raised"
             ELSE IF \E i \in 1..Len(calls) : calls[i] = "deploy_skale"
                    THEN "branch"
                    ELSE "api"
  /\ UNCHANGED <<PRIVATE_KEY, probe, skale_result, sync_log, sync_ret, report, result>>

\* deploy_skale(), before or after deploy_solana().
call_deploy_skale ==
  /\ pc = "api"
  /\ result.skale # None
  /\ \A i \in 1..Len(calls) : calls[i] # "deploy_skale"
  /\ SkaleBody(result.skale[1])
  /\ pc' = IF DeployPath(result.skale[1], ContractAddressMarker) = "raised"
             THEN "raised"
             ELSE IF \E i \in 1..Len(calls) : calls[i] = "deploy_solana"
                    THEN "branch"
                    ELSE "api"
  /\ UNCHANGED <<PRIVATE_KEY, probe, solana_result, sync_log, sync_ret, report, result>>

DeployNext ==
  \/ call_deploy_solana
  \/ call_deploy_skale
  \/ branch
  \/ sync_cross_chain
  \/ generate_report

DeploySpec == DeployInit /\ [][DeployNext]_vars

\* ---------------------------------------------------------------------
\* The deployers called any number of times on one MultiChainDeployer
\* ---------------------------------------------------------------------
RepeatInit ==
  /\ PRIVATE_KEY = "0xKEY"
  /\ probe = [t \in Tools |-> TRUE]
  /\ pc = "api"
  /\ now = 0
  /\ deployments = <<>>
  /\ solana_result = None
  /\ skale_result = None
  /\ calls = <<>>
  /\ ext = <<>>
  /\ out = <<>>
  /\ sync_log = <<>>
  /\ sync_ret = None
  /\ report = None
  /\ result = NoResult

\* One more deploy_solana().
repeat_deploy_solana ==
  /\ pc = "api"
  /\ Len(calls) < MaxCalls
  /\ \E o \in SolanaOutcomes(probe) : SolanaBody(o)
  /\ UNCHANGED <<PRIVATE_KEY, probe, pc, skale_result, sync_log, sync_ret,
                 report, result>>

\* One more deploy_skale().
repeat_deploy_skale ==
  /\ pc = "api"
  /\ Len(calls) < MaxCalls
  /\ \E o \in SkaleOutcomes : SkaleBody(o)
  /\ UNCHANGED <<PRIVATE_KEY, probe, pc, solana_result, sync_log, sync_ret,
                 report, result>>

RepeatNext == repeat_deploy_solana \/ repeat_deploy_skale

RepeatSpec == RepeatInit /\ [][RepeatNext]_vars

\* ---------------------------------------------------------------------
\* Properties
\* ---------------------------------------------------------------------
Called(name) == \E i \in 1..Len(calls) : calls[i] = name
Printed(msg) == \E i \in 1..Len(out) : out[i] = msg

DeploySteps == {"anchor build", "node solana_zero_cost_deploy.js",
                "node skale_mainnet_zero_cost_deploy.js"}

\* Both deployers have returned.
Settled == Called("deploy_solana") /\ Called("deploy_skale")

\* C1: in every state of a run the ledger holds at most one
\* DeploymentResult per chain.
C1_AtMostOnePerChain ==
  \A i, j \in 1..Len(deployments) :
    deployments[i].chain = deployments[j].chain => i = j

C1_Witness ==
  /\ pc = "done"
  /\ Len(deployments) = 2
  /\ deployments[1].contract_address = deployments[2].contract_address

\* C2: sync_cross_chain is invoked exactly when, after both deployers have
\* returned, the ledger holds two successful deployments, one per chain;
\* it is not invoked with fewer, nor before both deployers have returned.
C2_SyncIffTwoSuccesses ==
  /\ (pc = "sync" \/ Called("sync_cross_chain")) =>
       /\ Settled
       /\ Len(deployments) >= 2
       /\ {deployments[i].chain : i \in 1..Len(deployments)} = {"solana", "skale"}
  /\ \A i \in 1..Len(calls) :
       calls[i] = "sync_cross_chain" =>
         /\ \E j \in 1..(i - 1) : calls[j] = "deploy_solana"
         /\ \E j \in 1..(i - 1) : calls[j] = "deploy_skale"
  /\ (Settled /\ pc \in {"report", "done"}) =>
       (Called("sync_cross_chain") <=> Len(deployments) >= 2)

C2_Witness ==
  /\ pc = "done"
  /\ Called("sync_cross_chain")
  /\ Len(deployments) = 2

\* C3: when both deploys succeed and sync_cross_chain returns False, the
\* report is generated, lists both deployments, and does not mark the
\* cross-chain status as synchronized.
C3_FailedSyncReportedUnsynchronized ==
  (pc = "done" /\ Len(deployments) = 2 /\ sync_ret = Some(FALSE)) =>
    /\ report # None
    /\ Len(report[1].details) = 2
    /\ report[1].status # "Synchronized"

\* C4: a step of sync_cross_chain, whether it returns True or False,
\* leaves self.deployments as it was.
C4_SyncLeavesLedger ==
  [][pc = "sync" => deployments' = deployments]_vars

C4_Witness ==
  /\ sync_ret = Some(FALSE)
  /\ Len(deployments) = 2
  /\ deployments = solana_result \o skale_result

\* C5: with the private key not configured the run halts before any
\* deploy: no deployer is invoked, no build or deploy step is started,
\* sync_cross_chain and generate_report are not called, the ledger is empty.
C5_NoCredentialNoDeploy ==
  PRIVATE_KEY = DefaultKey =>
    /\ pc \in {"start", "done"}
    /\ ~Called("deploy_solana")
    /\ ~Called("deploy_skale")
    /\ ~Called("sync_cross_chain")
    /\ ~Called("generate_report")
    /\ \A i \in 1..Len(ext) : ext[i] \notin DeploySteps
    /\ deployments = <<>>
    /\ report = None

C5_Witness ==
  /\ PRIVATE_KEY = DefaultKey
  /\ pc = "done"
  /\ Printed(<<"private key not configured">>)

\* C6 as stated: with the credential present both deploys are attempted
\* whichever of node, python3, anchor, npx (hardhat) is absent.
C6_AnyToolAbsentStillDeploys ==
  (PRIVATE_KEY # DefaultKey /\ pc = "done") => Settled

\* C6 amended: with the credential present and node and python3 found,
\* check_environment returns True and both deploys are attempted whether
\* or not anchor and npx (hardhat) are found, their absence being only
\* printed; a missing node or python3 halts the run before any deploy.
C6_OptionalToolsDoNotHalt ==
  /\ (pc # "start" /\ PRIVATE_KEY # DefaultKey /\ probe["node"] /\ probe["python3"]) =>
       /\ pc = "deploy_solana" \/ Called("deploy_solana")
       /\ pc = "done" => Settled
       /\ \A t \in {"anchor", "npx"} : ~probe[t] => Printed(<<"not found", t>>)
       /\ ~Printed(<<"environment check failed">>)
  /\ (pc # "start" /\ ~(probe["node"] /\ probe["python3"])) =>
       /\ pc = "done"
       /\ ~Called("deploy_solana")
       /\ ~Called("deploy_skale")
       /\ Printed(<<"environment check failed">>)

C6_Witness ==
  /\ PRIVATE_KEY # DefaultKey
  /\ ~probe["anchor"]
  /\ ~probe["npx"]
  /\ pc = "done"
  /\ Settled

\* C7: every run either halts at the environment check or eventually has
\* invoked both deployers, whatever the first one does (failed build,
\* nonzero exit, unparseable output, exception); no deploy error aborts
\* the run with an exception.
C7_BothDeploysAttempted ==
  /\ <>(Settled \/ (pc = "done" /\ Printed(<<"environment check failed">>)))
  /\ [](pc # "raised")

C7_Witness ==
  /\ Printed(<<"unexpected error", "solana">>)
  /\ Called("deploy_skale")
  /\ IsResult(skale_result)

\* C8: when exactly one deploy succeeds the report is generated, lists
\* exactly that one deployment, and does not say synchronized;
\* sync_cross_chain is not invoked.
C8_PartialSuccess ==
  (pc = "done" /\ Settled /\ (IsResult(solana_result) # IsResult(skale_result))) =>
    /\ report # None
    /\ Called("generate_report")
    /\ ~Called("sync_cross_chain")
    /\ report[1].total_deployments = 1
    /\ Len(report[1].details) = 1
    /\ LET d == (solana_result \o skale_result)[1]
       IN /\ report[1].details[1].chain = d.chain
          /\ report[1].details[1].address = d.contract_address
          /\ Printed(<<"only " \o d.chain \o " successful">>)
    /\ report[1].status # "Synchronized"

C8_Witness ==
  /\ pc = "done"
  /\ ~IsResult(solana_result)
  /\ IsResult(skale_result)
  /\ report # None

\* C9: when both deploys fail the run prints that both failed and ends:
\* generate_report and sync_cross_chain are never called.
C9_AllFailed ==
  (Settled /\ deployments = <<>>) =>
    /\ pc \in {"branch", "done"}
    /\ pc = "done" => Printed(<<"both deployments failed">>)
    /\ ~Called("generate_report")
    /\ ~Called("sync_cross_chain")
    /\ report = None

C9_Witness ==
  /\ Settled
  /\ deployments = <<>>
  /\ pc = "done"
  /\ Printed(<<"could not extract", "skale">>)

\* C10: every call of sync_cross_chain with the same two results builds
\* the same sacred_state (matrix_level 1, earnings_pool 0, the two
\* addresses), whenever it is called and whatever was reconciled before.
C10_SyncIdempotent ==
  \A i \in 1..Len(sync_log) :
    /\ sync_log[i].sacred_state = sync_log[1].sacred_state
    /\ sync_log[i].sacred_state.matrix_level = 1
    /\ sync_log[i].sacred_state.earnings_pool = 0
    /\ sync_log[i].sacred_state.allowlist =
         <<solana_result[1].contract_address, skale_result[1].contract_address>>

C10_Witness ==
  /\ Len(sync_log) >= 2
  /\ sync_log[1].timestamp # sync_log[2].timestamp
  /\ Printed(<<"sync failed">>)

\* C11: sync_cross_chain given fewer than two results of distinct chains
\* (a missing result, or two results of one chain) fails: it returns no
\* success and builds no sync_data.
C11_NeedsTwoDistinctChains ==
  (/\ Called("sync_cross_chain")
   /\ \/ solana_result = None
      \/ skale_result = None
      \/ solana_result[1].chain = skale_result[1].chain) =>
    /\ sync_ret = Some(FALSE)
    /\ sync_log = <<>>
    /\ ~Printed(<<"synchronization complete">>)

\* The deployments of the ledger whose chain has the given native token.
OfToken(ledger, token) ==
  SelectSeq(ledger, LAMBDA d : chains[d.chain].native_token = token)

\* C12: the relayer-fee total of a report adds the fees of deployments of
\* one native token only, never a SOL fee and an sFUEL fee together.
C12_FeesPerToken ==
  report # None =>
    \E token \in {"SOL", "sFUEL"} :
      report[1].total_savings = SumFees(OfToken(deployments, token))

\* C14: a deployer whose script exited 0 without a readable marker and a
\* deployer whose script exited nonzero hand different outcomes to their
\* caller, or the final report tells them apart.
C14_FailureKindsDistinct ==
  (/\ pc = "done"
   /\ \/ Printed(<<"could not extract", "solana">>) /\ Printed(<<"deployment failed", "skale">>)
      \/ Printed(<<"deployment failed", "solana">>) /\ Printed(<<"could not extract", "skale">>)) =>
    \/ solana_result # skale_result
    \/ report # None

\* C18: the allowlist of every sync_data holds exactly the addresses of
\* the two reconciled deployments, each once.
C18_AllowlistExact ==
  \A i \in 1..Len(sync_log) :
    LET allowlist == sync_log[i].sacred_state.allowlist
    IN /\ \A j, k \in 1..Len(allowlist) : allowlist[j] = allowlist[k] => j = k
       /\ {allowlist[j] : j \in 1..Len(allowlist)} =
            {solana_result[1].contract_address, skale_result[1].contract_address}

\* What the claims say of a stdout, written without the deployers' parsing.
MarkerOf == [solana |-> ProgramIdMarker, skale |-> ContractAddressMarker]

LinesOf(stdout) == Split(stdout, "\n")

AfterFirstMarker(line, marker) ==
  SubSeq(line, FirstIndex(line, marker) + 1, Len(line))

\* s without its leading and trailing blanks.
Trimmed(s) ==
  LET idx == {i \in 1..Len(s) : s[i] # " "}
  IN IF idx = {}
       THEN <<>>
       ELSE SubSeq(s, CHOOSE i \in idx : \A j \in idx : i <= j,
                      CHOOSE i \in idx : \A j \in idx : i >= j)

\* Some line holds the marker followed by a character that is neither a
\* blank nor part of another marker.
MarkerLineWithValue(stdout, marker) ==
  \E i \in 1..Len(LinesOf(stdout)) :
    /\ Contains(LinesOf(stdout)[i], marker)
    /\ \E k \in 1..Len(AfterFirstMarker(LinesOf(stdout)[i], marker)) :
         AfterFirstMarker(LinesOf(stdout)[i], marker)[k] \notin {" ", marker}

ExitedZero(c) ==
  /\ result[c] # None
  /\ result[c][1].exc = "none"
  /\ result[c][1].returncode = 0

ReturnOf(c) == IF c = "solana" THEN solana_result ELSE skale_result

InLedger(c) == \E i \in 1..Len(deployments) : deployments[i].chain = c

\* C13: a deployer whose script exited 0 with no marker line holding a
\* value returns None and appends nothing, and the run counts its chain
\* as failed (no sync_cross_chain, chain absent from the report).
C13_NoMarkerNoSuccess ==
  \A c \in {"solana", "skale"} :
    (/\ Called("deploy_" \o c)
     /\ ExitedZero(c)
     /\ ~MarkerLineWithValue(result[c][1].stdout, MarkerOf[c])) =>
      /\ ReturnOf(c) = None
      /\ ~InLedger(c)
      /\ pc # "sync"
      /\ ~Called("sync_cross_chain")
      /\ report # None => c \notin report[1].chains_deployed

C13_Witness ==
  /\ Called("deploy_skale")
  /\ ExitedZero("skale")
  /\ Contains(result.skale[1].stdout, ContractAddressMarker)
  /\ ~MarkerLineWithValue(result.skale[1].stdout, ContractAddressMarker)
  /\ IsResult(solana_result)
  /\ pc = "done"

HasMarkerLine(stdout, marker) ==
  \E i \in 1..Len(LinesOf(stdout)) : Contains(LinesOf(stdout)[i], marker)

FirstMarkerLine(stdout, marker) ==
  LinesOf(stdout)[CHOOSE i \in 1..Len(LinesOf(stdout)) :
                    /\ Contains(LinesOf(stdout)[i], marker)
                    /\ \A j \in 1..(i - 1) : ~Contains(LinesOf(stdout)[j], marker)]

\* The text of s before its first marker, all of s when it holds none.
UpToMarker(s, marker) ==
  IF Contains(s, marker) THEN SubSeq(s, 1, FirstIndex(s, marker) - 1) ELSE s

\* Everything after the marker on the first marker line, trimmed.
ValueAfterMarker(stdout, marker) ==
  Trimmed(AfterFirstMarker(FirstMarkerLine(stdout, marker), marker))

\* The same, but only up to the next marker on that line.
ValueUpToNextMarker(stdout, marker) ==
  Trimmed(UpToMarker(AfterFirstMarker(FirstMarkerLine(stdout, marker), marker),
                     marker))

\* The deployer of chain c returned one result with the given address,
\* and that result is the one entry of chain c in the ledger.
YieldsResult(c, address) ==
  /\ ReturnOf(c) # None
  /\ ReturnOf(c)[1].chain = c
  /\ ReturnOf(c)[1].contract_address = address
  /\ ReturnOf(c)[1].program_id = address
  /\ ReturnOf(c)[1].gas_used = "0"
  /\ ReturnOf(c)[1].tx_hash # ""
  /\ \E i \in 1..Len(deployments) :
       /\ deployments[i] = ReturnOf(c)[1]
       /\ \A j \in 1..Len(deployments) : deployments[j].chain = c => j = i

\* C19 as stated: exit 0 and some marker line with a non-empty value give
\* a result whose address is the value after the marker on the first
\* marker line.
C19_ValueAfterMarker ==
  \A c \in {"solana", "skale"} :
    (/\ Called("deploy_" \o c)
     /\ ExitedZero(c)
     /\ MarkerLineWithValue(result[c][1].stdout, MarkerOf[c])) =>
      YieldsResult(c, ValueAfterMarker(result[c][1].stdout, MarkerOf[c]))

\* C19 amended: exit 0 and a first marker line whose text between its
\* first marker and the next marker (or the end of the line) is not blank
\* give a result whose address is that text, trimmed.
C19_ValueOfFirstMarkerLine ==
  \A c \in {"solana", "skale"} :
    (/\ Called("deploy_" \o c)
     /\ ExitedZero(c)
     /\ HasMarkerLine(result[c][1].stdout, MarkerOf[c])
     /\ ValueUpToNextMarker(result[c][1].stdout, MarkerOf[c]) # <<>>) =>
      YieldsResult(c, ValueUpToNextMarker(result[c][1].stdout, MarkerOf[c]))

C19_Witness ==
  /\ Called("deploy_solana")
  /\ ExitedZero("solana")
  /\ result.solana[1].stdout = <<"\n", ProgramIdMarker, " ", "a">>
  /\ IsResult(solana_result)
  /\ solana_result[1].contract_address = <<"a">>

\* A DeploymentResult without its timestamp.
WithoutTimestamp(d) ==
  [chain |-> d.chain, contract_address |-> d.contract_address,
   program_id |-> d.program_id, tx_hash |-> d.tx_hash,
   gas_used |-> d.gas_used, relayer_fee |-> d.relayer_fee]

Contents(ledger) == {WithoutTimestamp(ledger[i]) : i \in 1..Len(ledger)}

\* What deploy_solana() then deploy_skale(), run one after the other on
\* the fixed outcomes, return and leave in the ledger.
SequentialSolana ==
  IF DeployPath(result.solana[1], ProgramIdMarker) = "successful"
    THEN Some(SolanaDeployment(
                ParseStdout(result.solana[1].stdout, ProgramIdMarker)[1], 0))
    ELSE None

SequentialSkale ==
  IF DeployPath(result.skale[1], ContractAddressMarker) = "successful"
    THEN Some(SkaleDeployment(
                ParseStdout(result.skale[1].stdout, ContractAddressMarker)[1], 0))
    ELSE None

SequentialLedger ==
  LET first == IF SequentialSolana = None
                 THEN <<>>
                 ELSE LedgerAppend(<<>>, SequentialSolana[1])
  IN IF SequentialSkale = None
       THEN first
       ELSE LedgerAppend(first, SequentialSkale[1])

\* The branch of lines 297-305 the run has taken, once it has taken one.
TakenBranch ==
  IF pc = "sync" \/ Called("sync_cross_chain")
    THEN "sync"
    ELSE IF Printed(<<"both deployments failed">>)
           THEN "done"
           ELSE "report"

\* C15: whichever deployer completes first, once both have returned the
\* ledger holds, timestamps aside, the results a sequential run on the
\* same outcomes leaves, and the run takes the same branch.
C15_OrderIndependent ==
  (result.solana # None /\ result.skale # None /\ Settled) =>
    /\ Contents(deployments) = Contents(SequentialLedger)
    /\ pc # "branch" => TakenBranch = BranchTarget(SequentialSolana, SequentialSkale)

C15_Witness ==
  /\ Len(calls) >= 2
  /\ calls[1] = "deploy_skale"
  /\ calls[2] = "deploy_solana"
  /\ Len(deployments) = 2
  /\ deployments[1].chain = "skale"
  /\ deployments[1].timestamp < deployments[2].timestamp
  /\ pc = "done"

\* C16: after any sequence of deployer calls on one MultiChainDeployer,
\* the same chain's deployer called more than once included, the ledger
\* holds a single result for a chain.
C16_DuplicateChainRejected ==
  \A c \in {"solana", "skale"} :
    Cardinality({i \in 1..Len(deployments) : deployments[i].chain = c}) <= 1

\* C17: every step leaves the old ledger as a prefix of the new one and
\* adds at most one result; a result is added only by its chain's
\* deployer, whose script exited 0 with a readable marker, and it is the
\* value that deployer returns.
C17_AppendOnly ==
  [][/\ Len(deployments') >= Len(deployments)
     /\ Len(deployments') <= Len(deployments) + 1
     /\ SubSeq(deployments', 1, Len(deployments)) = deployments
     /\ Len(deployments') = Len(deployments) + 1 =>
          LET d == deployments'[Len(deployments')]
          IN /\ pc = "api"
             /\ ExitedZero(d.chain)
             /\ HasMarkerLine(result[d.chain][1].stdout, MarkerOf[d.chain])
             /\ ValueUpToNextMarker(result[d.chain][1].stdout, MarkerOf[d.chain]) # <<>>
             /\ calls' = Append(calls, "deploy_" \o d.chain)
             /\ IF d.chain = "solana"
                  THEN solana_result' = Some(d)
                  ELSE skale_result' = Some(d)]_vars

C17_Witness ==
  /\ Len(deployments) = 2
  /\ deployments[1].chain = "skale"
  /\ sync_ret = Some(FALSE)
  /\ report # None

\* The branch the ledger dictates.
LedgerBranch(n) == IF n >= 2 THEN "sync" ELSE IF n = 1 THEN "report" ELSE "done"

\* C20: the ledger holds exactly the results the deployers returned, so at
\* the branch the number of non-None return values is len(deployments);
\* the branch taken is the one the ledger dictates and agrees with the
\* status the report prints.
C20_ReturnsMatchLedger ==
  /\ deployments = solana_result \o skale_result
  /\ (Settled /\ pc # "branch") => TakenBranch = LedgerBranch(Len(deployments))
  /\ report # None =>
       (report[1].status = "Synchronized" <=> TakenBranch = "sync")

C20_Witness ==
  /\ pc = "done"
  /\ IsResult(solana_result)
  /\ IsResult(skale_result)
  /\ Len(deployments) = 2
  /\ report # None
  /\ report[1].status = "Synchronized"

====
